---------------------------- MODULE Spec2Model ----------------------------
(***************************************************************************)
(* A model of the cron schedule matcher of src/spec.go: SpecSchedule with  *)
(* its seven bit sets, dayMatches, eomBits, and the two searches Next and  *)
(* Latest, stepped one loop iteration at a time.                           *)
(*                                                                         *)
(* A big.Int bit set is the set of its set bit positions.  A time.Time is  *)
(* a record [day, sod, ns, loc]: the UTC day number counted from           *)
(* 1970-01-01, the second of that day, the nanosecond of that second and   *)
(* the Location the value carries.  A Location has a fixed offset, or one  *)
(* spring-forward transition that removes the hour after local midnight.   *)
(***************************************************************************)
EXTENDS Integers, Sequences, FiniteSets, TLC

(***************************************************************************)
(* Program constants (src/spec.go lines 86-91).                            *)
(***************************************************************************)
maxBits == 160

minYear == 1970

maxYear == 2099

(***************************************************************************)
(* The index the end-region lookups of eomBits hand to big.Int.Bit.  The   *)
(* source passes the literals 0x00FF000000000000 and 0x00FE000000000000 as *)
(* a bit INDEX (not as a mask).  Both lie beyond every position a schedule *)
(* holds (at most maxBits) and beyond the integers usable here; reading    *)
(* any position beyond maxBits of a non-negative big.Int gives the same    *)
(* answer, so both are represented by the first such position.             *)
(***************************************************************************)
domEndIndex == maxBits + 1

dowEndIndex == maxBits + 2

\* big.Int.Bit(i): the value of bit i, 0 or 1.
Bit(x, i) == IF i \in x THEN 1 ELSE 0

(***************************************************************************)
(* Machine words (uint, uint64, byte) as sets of set bit positions, so     *)
(* that shifts by 48 need no wide integers.                                *)
(***************************************************************************)
\* the uint a Bit() call returns, as a word
Word(b) == IF b = 1 THEN {0} ELSE {}

\* w >> k
Shr(w, k) == {p - k : p \in {q \in w : q >= k}}

\* w << k, truncated to a byte
ShlByte(w, k) == {p \in {q + k : q \in w} : p < 8}

\* uint64(w) << k
Shl64(w, k) == {p \in {q + k : q \in w} : p < 64}

\* byte(w)
Byte(w) == {p \in w : p < 8}

(***************************************************************************)
(* The calendar of package time (proleptic Gregorian), on day numbers.     *)
(***************************************************************************)
SecondsPerDay == 24 * 3600

\* the day number of the civil date y-m-d, m in 1..12, any integer d
DaysFromEra(era, yoe, doy) ==
  era * 146097 + yoe * 365 + yoe \div 4 - yoe \div 100 + doy - 719468

DaysFromMarchYear(yy, mp, d) ==
  DaysFromEra(yy \div 400, yy % 400, (153 * mp + 2) \div 5 + d - 1)

DaysFromCivil(y, m, d) ==
  DaysFromMarchYear(IF m <= 2 THEN y - 1 ELSE y, (m + 9) % 12, d)

\* the civil date [year, month, day] of a day number
CivilOfMonth(y, m, d) ==
  [year |-> IF m <= 2 THEN y + 1 ELSE y, month |-> m, day |-> d]

CivilOfMp(y, doy, mp) ==
  CivilOfMonth(y, IF mp < 10 THEN mp + 3 ELSE mp - 9, doy - (153 * mp + 2) \div 5 + 1)

CivilOfDoy(y, doy) == CivilOfMp(y, doy, (5 * doy + 2) \div 153)

CivilOfYoe(era, doe, yoe) ==
  CivilOfDoy(yoe + era * 400, doe - (365 * yoe + yoe \div 4 - yoe \div 100))

CivilOfDoe(era, doe) ==
  CivilOfYoe(era, doe,
             (doe - doe \div 1460 + doe \div 36524 - doe \div 146096) \div 365)

CivilFromDays(z) == CivilOfDoe((z + 719468) \div 146097, (z + 719468) % 146097)

\* the offset of a Location east of UTC, in seconds, before any transition
\* of its clock
Offset(loc) ==
  CASE loc = "UTC"      -> 0
    [] loc = "East"     -> 9 * 3600
    [] loc = "Local"    -> 0 - 5 * 3600
    [] loc = "SaoPaulo" -> 0 - 3 * 3600
    [] loc = "Amman"    -> 2 * 3600

\* the Locations whose clock springs forward by one hour at a local
\* midnight (the regime the note of lines 162-164 names), and the local
\* date of that midnight
HasTransition(loc) == loc \in {"SaoPaulo", "Amman"}

TransitionDate(loc) ==
  IF loc = "SaoPaulo" THEN DaysFromCivil(2018, 11, 4) ELSE DaysFromCivil(2019, 3, 29)

\* Location.lookup: the offset in force at the UTC instant day, secs
OffsetAt(loc, day, secs) ==
  IF HasTransition(loc)
       /\ day + (secs + Offset(loc)) \div SecondsPerDay >= TransitionDate(loc)
  THEN Offset(loc) + 3600
  ELSE Offset(loc)

\* a time.Time from a count of seconds on the UTC time line
Norm(day, secs, ns, loc) ==
  [day |-> day + secs \div SecondsPerDay, sod |-> secs % SecondsPerDay,
   ns |-> ns, loc |-> loc]

\* day number and second of day on the wall clock of t's Location
LocalDay(t) == t.day + (t.sod + OffsetAt(t.loc, t.day, t.sod)) \div SecondsPerDay

LocalSod(t) == (t.sod + OffsetAt(t.loc, t.day, t.sod)) % SecondsPerDay

Year(t) == CivilFromDays(LocalDay(t)).year

Month(t) == CivilFromDays(LocalDay(t)).month

Day(t) == CivilFromDays(LocalDay(t)).day

Hour(t) == LocalSod(t) \div 3600

Minute(t) == (LocalSod(t) % 3600) \div 60

Second(t) == LocalSod(t) % 60

Nanosecond(t) == t.ns

\* Sunday = 0; 1970-01-01 was a Thursday
Weekday(t) == (LocalDay(t) + 4) % 7

\* the offset time.Date settles on for the wall clock reading day, secs: it
\* looks the reading up as if it were UTC, and then looks up the instant
\* that offset gives (the offset found first when the instant lies in its
\* period, the offset of the instant's own period otherwise)
DateOffset(loc, day, secs) == OffsetAt(loc, day, secs - OffsetAt(loc, day, secs))

DateOfDay(day, secs, ns, loc) == Norm(day, secs - DateOffset(loc, day, secs), ns, loc)

\* time.Date: month and day overflow are normalised
Date(y, m, d, h, mi, s, ns, loc) ==
  DateOfDay(DaysFromCivil(y + (m - 1) \div 12, ((m - 1) % 12) + 1, d),
            h * 3600 + mi * 60 + s, ns, loc)

\* t.Add(d) for a duration d of whole seconds
Add(t, secs) == Norm(t.day, t.sod + secs, t.ns, t.loc)

\* the advance rounding up to a whole second, which leaves a whole second in
\* place
AddToWholeSecond(t) ==
  Norm(t.day, t.sod + (IF t.ns = 0 THEN 0 ELSE 1), 0, t.loc)

\* t.Add(1*time.Second - time.Duration(t.Nanosecond())*time.Nanosecond)
AddToNextSecond(t) ==
  LET total == t.ns + (1000000000 - t.ns)
  IN  Norm(t.day, t.sod + total \div 1000000000, total % 1000000000, t.loc)

\* t.AddDate(years, months, days)
AddDate(t, years, months, days) ==
  Date(Year(t) + years, Month(t) + months, Day(t) + days,
       Hour(t), Minute(t), Second(t), Nanosecond(t), t.loc)

\* the rounding down to the whole second strictly before t
TruncateBelowSecond(t) ==
  Norm(t.day, t.sod - (IF t.ns = 0 THEN 1 ELSE 0), 0, t.loc)

\* t.Truncate(time.Second), t.Truncate(time.Minute): multiples of the
\* duration on the absolute time line
TruncateSecond(t) == [t EXCEPT !.ns = 0]

TruncateMinute(t) == [t EXCEPT !.sod = @ - (@ % 60), !.ns = 0]

\* t.In(loc): the same instant, carried in another Location
In(t, loc) == [t EXCEPT !.loc = loc]

\* time.Time{}: January 1, year 1, 00:00:00 UTC
ZeroTime == [day |-> DaysFromCivil(1, 1, 1), sod |-> 0, ns |-> 0, loc |-> "UTC"]

\* the order of instants (t.Before(u), t.Equal(u))
Before(t, u) ==
  \/ t.day < u.day
  \/ t.day = u.day /\ t.sod < u.sod
  \/ t.day = u.day /\ t.sod = u.sod /\ t.ns < u.ns

SameInstant(t, u) == t.day = u.day /\ t.sod = u.sod /\ t.ns = u.ns

(***************************************************************************)
(* The End-of-Month projection and the Day Matcher (lines 332-396).        *)
(***************************************************************************)
\* a byte constant used as a mask: the positions lo..7
MaskFrom(lo) == lo .. 7

\* lines 378-392: the rotation of bDow by the weekday of the month's last day
rotateDow(bDow, lastDayOfWeek) ==
  CASE lastDayOfWeek = 0 -> Shr(MaskFrom(2) \cap bDow, 1) \cup ShlByte(bDow, 6)
    [] lastDayOfWeek = 1 -> Shr(MaskFrom(3) \cap bDow, 2) \cup ShlByte(bDow, 5)
    [] lastDayOfWeek = 2 -> Shr(MaskFrom(4) \cap bDow, 3) \cup ShlByte(bDow, 4)
    [] lastDayOfWeek = 3 -> Shr(MaskFrom(5) \cap bDow, 4) \cup ShlByte(bDow, 3)
    [] lastDayOfWeek = 4 -> Shr(MaskFrom(6) \cap bDow, 5) \cup ShlByte(bDow, 2)
    [] lastDayOfWeek = 5 -> Shr(MaskFrom(7) \cap bDow, 6) \cup ShlByte(bDow, 1)
    [] OTHER             -> bDow

\* lines 360-373: the number of the last day of t's month
lastDayOfMonth(t) ==
  LET year     == Year(t)
      leapYear == IF (year % 4 = 0 /\ year % 100 # 0) \/ year % 400 = 0
                  THEN 1 ELSE 0
  IN  IF Month(t) \in {4, 6, 9, 11} THEN 30
      ELSE IF Month(t) = 2 THEN 28 + leapYear
      ELSE 31

\* eomBits: the pair <<eom, eowd>> of words over the days of t's month
eomBits(s, t) ==
  LET bDow == Byte(Shr(Word(Bit(s.Dow, dowEndIndex)), 6 * 8))
  IN  IF Bit(s.Dom, domEndIndex) = 0 /\ bDow = {}
      THEN <<{}, {}>>
      ELSE LET eom     == lastDayOfMonth(t)
               dowBits ==
                 IF bDow # {}
                 THEN Shl64(rotateDow(bDow,
                        Weekday(Date(Year(t), Month(t), eom, 0, 0, 0, 0, t.loc))),
                        6 * 8)
                 ELSE {}
           IN  <<Shr(Word(Bit(s.Dom, domEndIndex)), 55 - eom),
                 Shr(dowBits, 55 - eom)>>

\* dayMatches with the flag bit ignored: always the OR of the two matches
dayMatchesAlwaysOr(s, t) ==
  LET e        == eomBits(s, t)
      eom      == e[1]
      eowd     == e[2]
      domMatch == Bit(s.Dom, Day(t)) > 0 \/ (eom # {} /\ Day(t) \in eom)
      dowMatch == Bit(s.Dow, Weekday(t)) > 0 \/ (eowd # {} /\ Day(t) \in eowd)
  IN  domMatch \/ dowMatch

\* dayMatches: whether the day-of-month and day-of-week restrictions accept t
dayMatches(s, t) ==
  LET e        == eomBits(s, t)
      eom      == e[1]
      eowd     == e[2]
      domMatch == Bit(s.Dom, Day(t)) > 0 \/ (eom # {} /\ Day(t) \in eom)
      dowMatch == Bit(s.Dow, Weekday(t)) > 0 \/ (eowd # {} /\ Day(t) \in eowd)
  IN  IF Bit(s.Dom, maxBits) > 0 \/ Bit(s.Dow, maxBits) > 0
      THEN domMatch /\ dowMatch
      ELSE domMatch \/ dowMatch

(***************************************************************************)
(* Schedules and instants the searches are run on.                         *)
(***************************************************************************)
\* the number of schedules and of instants drawn from the tables below
NumSchedules == 18

NumInstants == 16

\* a SpecSchedule (lines 11-16)
SpecSchedule(sec, min, hr, dm, mon, dw, yr, loc) ==
  [Second |-> sec, Minute |-> min, Hour |-> hr, Dom |-> dm, Month |-> mon,
   Dow |-> dw, Year |-> yr, Location |-> loc]

\* the field bounds (lines 26-76)
seconds == 0 .. 59

minutes == 0 .. 59

hours == 0 .. 23

dom == 1 .. 31

months == 1 .. 12

dow == 0 .. 6

years == 0 .. (maxYear - minYear)

\* the named end-region positions (lines 30, 33 and 66)
domL == 55

dom3L == 52

dowFriL == 54

ScheduleAt(i) ==
  CASE i = 1  -> SpecSchedule(seconds, minutes, hours, dom, months, dow, years, "Local")
    [] i = 2  -> SpecSchedule({0}, {0}, {0}, dom, months, dow, years, "East")
    [] i = 3  -> SpecSchedule({0}, {30}, {12}, {15}, months, {1}, years, "UTC")
    [] i = 4  -> SpecSchedule({0}, {30}, {12}, {15, maxBits}, months, {1}, years, "UTC")
    [] i = 5  -> SpecSchedule({0}, {30}, {12}, {15}, months, {1, maxBits}, years, "Local")
    [] i = 6  -> SpecSchedule({0}, {0}, {0}, {domL}, {2}, {}, years, "UTC")
    [] i = 7  -> SpecSchedule({0}, {0}, {9}, {}, {2, 5, 8, 11}, {dowFriL}, {53, 54}, "UTC")
    [] i = 8  -> SpecSchedule({0}, {0}, {0}, {30}, {2}, {}, years, "UTC")
    [] i = 9  -> SpecSchedule({0}, {0}, {0}, {1}, {1}, {}, {60}, "UTC")
    [] i = 10 -> SpecSchedule(seconds, minutes, {}, dom, months, dow, {128, 129}, "UTC")
    [] i = 11 -> SpecSchedule({10, 40}, {5, 35}, {3, 22}, dom, {1, 6, 12}, dow, years, "East")
    [] i = 12 -> SpecSchedule({0}, {0}, {0}, {29}, {2}, {}, years, "UTC")
    [] i = 13 -> SpecSchedule({0}, {0}, {0}, {dom3L}, {2, 4, 7}, {}, {53, 54}, "UTC")
    [] i = 14 -> SpecSchedule({}, {58, 59}, {23}, {31}, {12}, {}, {129}, "UTC")
    [] i = 15 -> SpecSchedule({0}, {0}, {0}, dom, months, dow, years, "SaoPaulo")
    [] i = 16 -> SpecSchedule({0}, {0}, {1}, {3}, {11}, {}, {48}, "SaoPaulo")
    [] i = 17 -> SpecSchedule({0}, {30}, {23}, {3}, {11}, {}, years, "SaoPaulo")
    [] i = 18 -> SpecSchedule({0}, {0}, {9}, {29}, {3}, {}, {49, 50}, "Amman")
    [] OTHER  -> SpecSchedule({0}, {0, 15, 30, 45}, 9 .. 17, {}, months, 1 .. 5, years, "Local")

Schedules == {ScheduleAt(i) : i \in 1 .. NumSchedules}

InstantAt(i) ==
  CASE i = 1  -> Date(2023, 2, 27, 12, 10, 30, 0, "UTC")
    [] i = 2  -> Date(2024, 2, 29, 23, 59, 59, 500000000, "UTC")
    [] i = 3  -> Date(2021, 1, 1, 8, 59, 59, 0, "East")
    [] i = 4  -> Date(2021, 6, 14, 11, 59, 59, 0, "UTC")
    [] i = 5  -> Date(1965, 3, 1, 0, 0, 0, 0, "UTC")
    [] i = 6  -> Date(1969, 12, 31, 23, 59, 59, 500000000, "UTC")
    [] i = 7  -> Date(2098, 11, 1, 6, 30, 0, 0, "UTC")
    [] i = 8  -> Date(2099, 12, 31, 23, 59, 59, 0, "UTC")
    [] i = 9  -> Date(2105, 1, 1, 0, 0, 0, 0, "UTC")
    [] i = 10 -> Date(2024, 1, 31, 22, 59, 59, 0, "Local")
    [] i = 11 -> Date(2023, 2, 27, 12, 29, 59, 0, "UTC")
    [] i = 12 -> Date(2018, 11, 3, 23, 59, 59, 0, "SaoPaulo")
    [] i = 13 -> Date(2018, 11, 3, 2, 0, 0, 0, "SaoPaulo")
    [] i = 14 -> Date(2018, 11, 4, 12, 0, 0, 0, "SaoPaulo")
    [] i = 15 -> Date(2019, 3, 10, 0, 0, 0, 0, "Amman")
    [] i = 16 -> Date(2019, 3, 29, 2, 0, 0, 0, "Amman")
    [] OTHER  -> Date(2022, 3, 15, 0, 0, 0, 1, "UTC")

Instants == {InstantAt(i) : i \in 1 .. NumInstants}

(***************************************************************************)
(* The state: the schedule, the running call (its locals and its position  *)
(* in the code) and the record of the call completed before it; other is   *)
(* the locals and the position of a second goroutine calling on the same   *)
(* schedule, while it is not the one taking steps.                         *)
(***************************************************************************)
VARIABLES s, op, arg, t, added, yearLimit, origLocation, loc, pc, ret, steps, prev
VARIABLES other

vars == <<s, op, arg, t, added, yearLimit, origLocation, loc, pc, ret, steps, prev,
          other>>

NoCall == [op |-> "none", arg |-> ZeroTime, ret |-> ZeroTime]

\* a goroutine that has not called yet
NotCalling ==
  [op |-> "none", arg |-> ZeroTime, t |-> ZeroTime, added |-> FALSE, yearLimit |-> 0,
   origLocation |-> "UTC", loc |-> "UTC", pc |-> "idle", ret |-> ZeroTime, steps |-> 0]

Init ==
  /\ s \in Schedules
  /\ op = "none"
  /\ arg = ZeroTime
  /\ t = ZeroTime
  /\ added = FALSE
  /\ yearLimit = 0
  /\ origLocation = "UTC"
  /\ loc = "UTC"
  /\ pc = "idle"
  /\ ret = ZeroTime
  /\ steps = 0
  /\ prev = NoCall
  /\ other = NotCalling

(***************************************************************************)
(* SpecSchedule.Next (lines 95-223).                                       *)
(***************************************************************************)
\* return v: the call is over
Return(v) ==
  /\ ret' = v
  /\ pc' = "done"

\* the prologue of Next without the advance to the upcoming second
NextEnterNoAdvance(tin) ==
  LET t1 == IF s.Location # "Local" THEN In(tin, s.Location) ELSE tin
      t2 == TruncateSecond(t1)
  IN  /\ op' = "Next"
      /\ arg' = tin
      /\ origLocation' = tin.loc
      /\ loc' = IF s.Location = "Local" THEN tin.loc ELSE s.Location
      /\ t' = t2
      /\ added' = FALSE
      /\ yearLimit' = Year(t2) + 5
      /\ pc' = "WRAP"
      /\ ret' = ZeroTime
      /\ steps' = 0

\* lines 109-125: the prologue of Next on the instant tin
NextEnter(tin) ==
  LET t1 == IF s.Location # "Local" THEN In(tin, s.Location) ELSE tin
      t2 == AddToNextSecond(t1)
  IN  /\ op' = "Next"
      /\ arg' = tin
      /\ origLocation' = tin.loc
      /\ loc' = IF s.Location = "Local" THEN tin.loc ELSE s.Location
      /\ t' = t2
      /\ added' = FALSE
      /\ yearLimit' = Year(t2) + 5
      /\ pc' = "WRAP"
      /\ ret' = ZeroTime
      /\ steps' = 0

\* lines 127-130: the label WRAP
NextWRAP ==
  /\ op = "Next" /\ pc = "WRAP"
  /\ IF Year(t) > yearLimit \/ Year(t) > maxYear
     THEN Return(ZeroTime)
     ELSE pc' = "year" /\ ret' = ret
  /\ UNCHANGED <<s, op, arg, t, added, yearLimit, origLocation, loc, steps, prev, other>>

\* the year loop taking every year as set
NextYearAnyYear ==
  /\ op = "Next" /\ pc = "year"
  /\ pc' = "month"
  /\ UNCHANGED <<t, added, steps, ret>>
  /\ UNCHANGED <<s, op, arg, yearLimit, origLocation, loc, prev, other>>

\* the year loop without the five-year limit in its body
NextYearNoLimit ==
  /\ op = "Next" /\ pc = "year"
  /\ IF Year(t) < minYear \/ Bit(s.Year, Year(t) - minYear) = 0
     THEN LET t1 == IF ~added THEN Date(Year(t), 1, 1, 0, 0, 0, 0, loc) ELSE t
              t2 == AddDate(t1, 1, 0, 0)
          IN  /\ added' = TRUE
              /\ t' = t2
              /\ steps' = steps + 1
              /\ IF Year(t2) > maxYear
                 THEN Return(ZeroTime)
                 ELSE pc' = "year" /\ ret' = ret
     ELSE /\ pc' = "month"
          /\ UNCHANGED <<t, added, steps, ret>>
  /\ UNCHANGED <<s, op, arg, yearLimit, origLocation, loc, prev, other>>

\* lines 132-141: one test of the year loop and, when it holds, its body
NextYear ==
  /\ op = "Next" /\ pc = "year"
  /\ IF Year(t) < minYear \/ Bit(s.Year, Year(t) - minYear) = 0
     THEN LET t1 == IF ~added THEN Date(Year(t), 1, 1, 0, 0, 0, 0, loc) ELSE t
              t2 == AddDate(t1, 1, 0, 0)
          IN  /\ added' = TRUE
              /\ t' = t2
              /\ steps' = steps + 1
              /\ IF Year(t2) > yearLimit \/ Year(t2) > maxYear
                 THEN Return(ZeroTime)
                 ELSE pc' = "year" /\ ret' = ret
     ELSE /\ pc' = "month"
          /\ UNCHANGED <<t, added, steps, ret>>
  /\ UNCHANGED <<s, op, arg, yearLimit, origLocation, loc, prev, other>>

\* lines 145-158: the month loop
NextMonth ==
  /\ op = "Next" /\ pc = "month"
  /\ IF Bit(s.Month, Month(t)) = 0
     THEN LET t1 == IF ~added THEN Date(Year(t), Month(t), 1, 0, 0, 0, 0, loc) ELSE t
              t2 == AddDate(t1, 0, 1, 0)
          IN  /\ added' = TRUE
              /\ t' = t2
              /\ steps' = steps + 1
              /\ pc' = IF Month(t2) = 1 THEN "WRAP" ELSE "month"
     ELSE /\ pc' = "day"
          /\ UNCHANGED <<t, added, steps>>
  /\ UNCHANGED <<s, op, arg, yearLimit, origLocation, loc, ret, prev, other>>

\* lines 165-184: the day loop, with its correction of a midnight that a
\* clock change moved
NextDay ==
  /\ op = "Next" /\ pc = "day"
  /\ IF ~dayMatches(s, t)
     THEN LET t1 == IF ~added
                    THEN Date(Year(t), Month(t), Day(t), 0, 0, 0, 0, loc)
                    ELSE t
              t2 == AddDate(t1, 0, 0, 1)
              t3 == IF Hour(t2) # 0
                    THEN IF Hour(t2) > 12
                         THEN Add(t2, (24 - Hour(t2)) * 3600)
                         ELSE Add(t2, (0 - Hour(t2)) * 3600)
                    ELSE t2
          IN  /\ added' = TRUE
              /\ t' = t3
              /\ steps' = steps + 1
              /\ pc' = IF Day(t3) = 1 THEN "WRAP" ELSE "day"
     ELSE /\ pc' = "hour"
          /\ UNCHANGED <<t, added, steps>>
  /\ UNCHANGED <<s, op, arg, yearLimit, origLocation, loc, ret, prev, other>>

\* the hour loop without the snap to the start of the hour
NextHourNoSnap ==
  /\ op = "Next" /\ pc = "hour"
  /\ IF Bit(s.Hour, Hour(t)) = 0
     THEN LET t2 == Add(t, 3600)
          IN  /\ added' = TRUE
              /\ t' = t2
              /\ steps' = steps + 1
              /\ pc' = IF Hour(t2) = 0 THEN "WRAP" ELSE "hour"
     ELSE /\ pc' = "minute"
          /\ UNCHANGED <<t, added, steps>>
  /\ UNCHANGED <<s, op, arg, yearLimit, origLocation, loc, ret, prev, other>>

\* lines 186-196: the hour loop
NextHour ==
  /\ op = "Next" /\ pc = "hour"
  /\ IF Bit(s.Hour, Hour(t)) = 0
     THEN LET t1 == IF ~added
                    THEN Date(Year(t), Month(t), Day(t), Hour(t), 0, 0, 0, loc)
                    ELSE t
              t2 == Add(t1, 3600)
          IN  /\ added' = TRUE
              /\ t' = t2
              /\ steps' = steps + 1
              /\ pc' = IF Hour(t2) = 0 THEN "WRAP" ELSE "hour"
     ELSE /\ pc' = "minute"
          /\ UNCHANGED <<t, added, steps>>
  /\ UNCHANGED <<s, op, arg, yearLimit, origLocation, loc, ret, prev, other>>

\* the minute loop without the truncation to the minute
NextMinuteNoTruncate ==
  /\ op = "Next" /\ pc = "minute"
  /\ IF Bit(s.Minute, Minute(t)) = 0
     THEN LET t2 == Add(t, 60)
          IN  /\ added' = TRUE
              /\ t' = t2
              /\ steps' = steps + 1
              /\ pc' = IF Minute(t2) = 0 THEN "WRAP" ELSE "minute"
     ELSE /\ pc' = "second"
          /\ UNCHANGED <<t, added, steps>>
  /\ UNCHANGED <<s, op, arg, yearLimit, origLocation, loc, ret, prev, other>>

\* lines 198-208: the minute loop
NextMinute ==
  /\ op = "Next" /\ pc = "minute"
  /\ IF Bit(s.Minute, Minute(t)) = 0
     THEN LET t1 == IF ~added THEN TruncateMinute(t) ELSE t
              t2 == Add(t1, 60)
          IN  /\ added' = TRUE
              /\ t' = t2
              /\ steps' = steps + 1
              /\ pc' = IF Minute(t2) = 0 THEN "WRAP" ELSE "minute"
     ELSE /\ pc' = "second"
          /\ UNCHANGED <<t, added, steps>>
  /\ UNCHANGED <<s, op, arg, yearLimit, origLocation, loc, ret, prev, other>>

\* lines 210-222: the second loop and the return of the match
NextSecond ==
  /\ op = "Next" /\ pc = "second"
  /\ IF Bit(s.Second, Second(t)) = 0
     THEN LET t1 == IF ~added THEN TruncateSecond(t) ELSE t
              t2 == Add(t1, 1)
          IN  /\ added' = TRUE
              /\ t' = t2
              /\ steps' = steps + 1
              /\ pc' = IF Second(t2) = 0 THEN "WRAP" ELSE "second"
              /\ ret' = ret
     ELSE /\ Return(In(t, origLocation))
          /\ UNCHANGED <<t, added, steps>>
  /\ UNCHANGED <<s, op, arg, yearLimit, origLocation, loc, prev, other>>

(***************************************************************************)
(* SpecSchedule.Latest (lines 228-330).                                    *)
(***************************************************************************)
\* the prologue of Latest without the rounding down to the second
LatestEnterNoTruncate(tin) ==
  LET t2 == IF s.Location # "Local" THEN In(tin, s.Location) ELSE tin
  IN  /\ op' = "Latest"
      /\ arg' = tin
      /\ origLocation' = tin.loc
      /\ loc' = IF s.Location = "Local" THEN tin.loc ELSE s.Location
      /\ t' = t2
      /\ added' = FALSE
      /\ yearLimit' = Year(t2) - 5
      /\ pc' = "WRAP"
      /\ ret' = ZeroTime
      /\ steps' = 0

\* lines 242-255: the prologue of Latest on the instant tin
LatestEnter(tin) ==
  LET t1 == IF s.Location # "Local" THEN In(tin, s.Location) ELSE tin
      t2 == TruncateSecond(t1)
  IN  /\ op' = "Latest"
      /\ arg' = tin
      /\ origLocation' = tin.loc
      /\ loc' = IF s.Location = "Local" THEN tin.loc ELSE s.Location
      /\ t' = t2
      /\ added' = FALSE
      /\ yearLimit' = Year(t2) - 5
      /\ pc' = "WRAP"
      /\ ret' = ZeroTime
      /\ steps' = 0

\* the label WRAP without the minYear floor
LatestWRAPNoMinYear ==
  /\ op = "Latest" /\ pc = "WRAP"
  /\ IF Year(t) < yearLimit
     THEN Return(ZeroTime)
     ELSE pc' = "year" /\ ret' = ret
  /\ UNCHANGED <<s, op, arg, t, added, yearLimit, origLocation, loc, steps, prev, other>>

\* lines 257-260: the label WRAP
LatestWRAP ==
  /\ op = "Latest" /\ pc = "WRAP"
  /\ IF Year(t) < yearLimit \/ Year(t) < minYear
     THEN Return(ZeroTime)
     ELSE pc' = "year" /\ ret' = ret
  /\ UNCHANGED <<s, op, arg, t, added, yearLimit, origLocation, loc, steps, prev, other>>

\* the year loop without the five-year limit in its body
LatestYearNoLimit ==
  /\ op = "Latest" /\ pc = "year"
  /\ IF Year(t) > maxYear \/ Bit(s.Year, Year(t) - minYear) = 0
     THEN LET t2 == Add(Date(Year(t), 1, 1, 0, 0, 0, 0, loc), 0 - 1)
          IN  /\ t' = t2
              /\ steps' = steps + 1
              /\ IF Year(t2) < minYear
                 THEN Return(ZeroTime)
                 ELSE pc' = "year" /\ ret' = ret
     ELSE /\ pc' = "month"
          /\ UNCHANGED <<t, steps, ret>>
  /\ UNCHANGED <<s, op, arg, added, yearLimit, origLocation, loc, prev, other>>

\* lines 262-267: the year loop
LatestYear ==
  /\ op = "Latest" /\ pc = "year"
  /\ IF Year(t) > maxYear \/ Bit(s.Year, Year(t) - minYear) = 0
     THEN LET t2 == Add(Date(Year(t), 1, 1, 0, 0, 0, 0, loc), 0 - 1)
          IN  /\ t' = t2
              /\ steps' = steps + 1
              /\ IF Year(t2) < yearLimit \/ Year(t2) < minYear
                 THEN Return(ZeroTime)
                 ELSE pc' = "year" /\ ret' = ret
     ELSE /\ pc' = "month"
          /\ UNCHANGED <<t, steps, ret>>
  /\ UNCHANGED <<s, op, arg, added, yearLimit, origLocation, loc, prev, other>>

\* lines 271-278: the month loop
LatestMonth ==
  /\ op = "Latest" /\ pc = "month"
  /\ IF Bit(s.Month, Month(t)) = 0
     THEN LET t2 == Add(Date(Year(t), Month(t), 1, 0, 0, 0, 0, loc), 0 - 1)
          IN  /\ t' = t2
              /\ steps' = steps + 1
              /\ pc' = IF Month(t2) = 12 THEN "WRAP" ELSE "month"
     ELSE /\ pc' = "day"
          /\ UNCHANGED <<t, steps>>
  /\ UNCHANGED <<s, op, arg, added, yearLimit, origLocation, loc, ret, prev, other>>

\* the day loop with the wrap-around detected after the decrement, as Next
\* detects it
LatestDayWrapAfter ==
  /\ op = "Latest" /\ pc = "day"
  /\ IF ~dayMatches(s, t)
     THEN LET t2 == Add(Date(Year(t), Month(t), Day(t), 0, 0, 0, 0, loc), 0 - 1)
          IN  /\ t' = t2
              /\ steps' = steps + 1
              /\ pc' = IF Day(t2) = 1 THEN "WRAP" ELSE "day"
     ELSE /\ pc' = "hour"
          /\ UNCHANGED <<t, steps>>
  /\ UNCHANGED <<s, op, arg, added, yearLimit, origLocation, loc, ret, prev, other>>

\* lines 285-294: the day loop
LatestDay ==
  /\ op = "Latest" /\ pc = "day"
  /\ IF ~dayMatches(s, t)
     THEN LET needWrap == Day(t) = 1
              t2 == Add(Date(Year(t), Month(t), Day(t), 0, 0, 0, 0, loc), 0 - 1)
          IN  /\ t' = t2
              /\ steps' = steps + 1
              /\ pc' = IF needWrap THEN "WRAP" ELSE "day"
     ELSE /\ pc' = "hour"
          /\ UNCHANGED <<t, steps>>
  /\ UNCHANGED <<s, op, arg, added, yearLimit, origLocation, loc, ret, prev, other>>

\* lines 296-305: the hour loop
LatestHour ==
  /\ op = "Latest" /\ pc = "hour"
  /\ IF Bit(s.Hour, Hour(t)) = 0
     THEN LET needWrap == Hour(t) = 0
              t2 == Add(Date(Year(t), Month(t), Day(t), Hour(t), 0, 0, 0, loc), 0 - 1)
          IN  /\ t' = t2
              /\ steps' = steps + 1
              /\ pc' = IF needWrap THEN "WRAP" ELSE "hour"
     ELSE /\ pc' = "minute"
          /\ UNCHANGED <<t, steps>>
  /\ UNCHANGED <<s, op, arg, added, yearLimit, origLocation, loc, ret, prev, other>>

\* lines 307-316: the minute loop
LatestMinute ==
  /\ op = "Latest" /\ pc = "minute"
  /\ IF Bit(s.Minute, Minute(t)) = 0
     THEN LET needWrap == Minute(t) = 0
              t2 == Add(TruncateMinute(t), 0 - 1)
          IN  /\ t' = t2
              /\ steps' = steps + 1
              /\ pc' = IF needWrap THEN "WRAP" ELSE "minute"
     ELSE /\ pc' = "second"
          /\ UNCHANGED <<t, steps>>
  /\ UNCHANGED <<s, op, arg, added, yearLimit, origLocation, loc, ret, prev, other>>

\* the second loop without the decrement
LatestSecondNoDecrement ==
  /\ op = "Latest" /\ pc = "second"
  /\ IF Bit(s.Second, Second(t)) = 0
     THEN LET needWrap == Second(t) = 0
              t2 == TruncateSecond(t)
          IN  /\ t' = t2
              /\ steps' = steps + 1
              /\ pc' = IF needWrap THEN "WRAP" ELSE "second"
              /\ ret' = ret
     ELSE /\ Return(In(t, origLocation))
          /\ UNCHANGED <<t, steps>>
  /\ UNCHANGED <<s, op, arg, added, yearLimit, origLocation, loc, prev, other>>

\* lines 318-329: the second loop and the return of the match
LatestSecond ==
  /\ op = "Latest" /\ pc = "second"
  /\ IF Bit(s.Second, Second(t)) = 0
     THEN LET needWrap == Second(t) = 0
              t2 == Add(TruncateSecond(t), 0 - 1)
          IN  /\ t' = t2
              /\ steps' = steps + 1
              /\ pc' = IF needWrap THEN "WRAP" ELSE "second"
              /\ ret' = ret
     ELSE /\ Return(In(t, origLocation))
          /\ UNCHANGED <<t, steps>>
  /\ UNCHANGED <<s, op, arg, added, yearLimit, origLocation, loc, prev, other>>

(***************************************************************************)
(* The callers: a first call on an instant of the table, and a second call *)
(* on the same schedule that is fed from the first one's result.           *)
(***************************************************************************)
IsZero(v) == SameInstant(v, ZeroTime)

\* the instants a second call of Next is made on, after a call of Next:
\* the result itself, and any later instant of the table
AfterNext == {ret} \cup {u \in Instants : Before(arg, u)}

\* after a call of Latest that found an instant: one second before it
AfterLatest == IF IsZero(ret) THEN {} ELSE {Add(ret, 0 - 1)}

NextCall ==
  /\ pc = "idle"
  /\ \E tin \in Instants : NextEnter(tin)
  /\ UNCHANGED <<s, prev, other>>

LatestCall ==
  /\ pc = "idle"
  /\ \E tin \in Instants : LatestEnter(tin)
  /\ UNCHANGED <<s, prev, other>>

NextAgain ==
  /\ pc = "done" /\ prev.op = "none"
  /\ \E tin \in (IF op = "Next" THEN AfterNext ELSE AfterLatest) : NextEnter(tin)
  /\ prev' = [op |-> op, arg |-> arg, ret |-> ret]
  /\ UNCHANGED <<s, other>>

LatestAgain ==
  /\ pc = "done" /\ prev.op = "none"
  /\ op = "Next" /\ ~IsZero(ret)
  /\ LatestEnter(ret)
  /\ prev' = [op |-> op, arg |-> arg, ret |-> ret]
  /\ UNCHANGED <<s, other>>

Next ==
  \/ NextCall
  \/ NextWRAP
  \/ NextYear
  \/ NextMonth
  \/ NextDay
  \/ NextHour
  \/ NextMinute
  \/ NextSecond
  \/ LatestCall
  \/ LatestWRAP
  \/ LatestYear
  \/ LatestMonth
  \/ LatestDay
  \/ LatestHour
  \/ LatestMinute
  \/ LatestSecond
  \/ NextAgain
  \/ LatestAgain

Spec == Init /\ [][Next]_vars

\* lines 132 and 262: the running call is at the test of its year loop and
\* the test reads s.Year (the comparison before || did not decide it)
ReadsYearBit ==
  /\ pc = "year"
  /\ IF op = "Next" THEN ~(Year(t) < minYear) ELSE ~(Year(t) > maxYear)

\* the index that read hands to s.Year.Bit
YearBitIndex == Year(t) - minYear

(***************************************************************************)
(* What the searches are checked against: the schedule read directly as a  *)
(* set of whole-second instants.                                           *)
(***************************************************************************)
\* the Location the running call reads the calendar in
SchedLoc == IF s.Location = "Local" THEN arg.loc ELSE s.Location

\* the first whole second after a, and the last one at or before a
FirstSecondAfter(a) == Norm(a.day, a.sod + 1, 0, a.loc)

LastSecondUpTo(a) == [a EXCEPT !.ns = 0]

\* u, an instant carried in the schedule's Location, satisfies every field
Satisfies(sch, u) ==
  /\ u.ns = 0
  /\ Year(u) \in minYear .. maxYear
  /\ Bit(sch.Year, Year(u) - minYear) = 1
  /\ Bit(sch.Month, Month(u)) = 1
  /\ dayMatches(sch, u)
  /\ Bit(sch.Hour, Hour(u)) = 1
  /\ Bit(sch.Minute, Minute(u)) = 1
  /\ Bit(sch.Second, Second(u)) = 1

\* an instant of the date with local day number ld (its noon, or one hour
\* past it)
OnDay(ld, l) == Norm(ld, 12 * 3600 - Offset(l), 0, l)

\* the date with local day number ld satisfies Year, Month and the Day Matcher
DateAccepted(sch, ld, l) ==
  /\ Year(OnDay(ld, l)) \in minYear .. maxYear
  /\ Bit(sch.Year, Year(OnDay(ld, l)) - minYear) = 1
  /\ Bit(sch.Month, Month(OnDay(ld, l))) = 1
  /\ dayMatches(sch, OnDay(ld, l))

\* the first second of the wall clock on the date with local day number ld:
\* midnight, or the end of the hour a spring-forward removed
FirstSod(l, ld) ==
  IF HasTransition(l) /\ ld = TransitionDate(l) THEN 3600 ELSE 0

\* some second of the day in lo .. hi-1 has its Hour, Minute and Second bit set
TodIn(sch, lo, hi) ==
  /\ lo < hi
  /\ \E h \in {x \in sch.Hour : x * 3600 + 3599 >= lo /\ x * 3600 < hi} :
       \E m \in {x \in sch.Minute : h * 3600 + x * 60 + 59 >= lo
                                     /\ h * 3600 + x * 60 < hi} :
         \E sec \in sch.Second :
           /\ lo <= h * 3600 + m * 60 + sec
           /\ h * 3600 + m * 60 + sec < hi

\* some whole-second instant u with from <= u < to satisfies the schedule
\* (from and to are whole seconds carried in the schedule's Location l)
SatisfiedIn(sch, l, from, to) ==
  \E ld \in LocalDay(from) .. LocalDay(to) :
    /\ TodIn(sch, IF ld = LocalDay(from) THEN LocalSod(from) ELSE FirstSod(l, ld),
                  IF ld = LocalDay(to) THEN LocalSod(to) ELSE SecondsPerDay)
    /\ DateAccepted(sch, ld, l)

\* the smaller and the larger of two integers
Min(a, b) == IF a <= b THEN a ELSE b

Max(a, b) == IF a >= b THEN a ELSE b

\* the first instant past the lookahead window of Next called on a: the start
\* of the year after min(year + 5, maxYear)
NextHorizonEnd(a, l) ==
  Date(Min(Year(In(FirstSecondAfter(a), l)) + 5, maxYear) + 1, 1, 1, 0, 0, 0, 0, l)

\* the first instant of the lookback window of Latest called on a
LatestHorizonStart(a, l) ==
  Date(Max(Year(In(LastSecondUpTo(a), l)) - 5, minYear), 1, 1, 0, 0, 0, 0, l)

NextDone == pc = "done" /\ op = "Next"

LatestDone == pc = "done" /\ op = "Latest"

(***************************************************************************)
(* C1: a finished Next returns the earliest whole-second instant after its *)
(* argument that satisfies every field, carried in the argument's          *)
(* Location; it returns the zero time only when no instant of the          *)
(* lookahead window satisfies the schedule.                                *)
(***************************************************************************)
C1_NextIsEarliest ==
  NextDone =>
    IF IsZero(ret)
    THEN ~SatisfiedIn(s, SchedLoc, In(FirstSecondAfter(arg), SchedLoc),
                      NextHorizonEnd(arg, SchedLoc))
    ELSE /\ Satisfies(s, In(ret, SchedLoc))
         /\ Before(arg, ret)
         /\ ret.loc = arg.loc
         /\ ~SatisfiedIn(s, SchedLoc, In(FirstSecondAfter(arg), SchedLoc),
                         In(ret, SchedLoc))

\* a Next that walked through wrap-arounds before it found its instant
C1_Witness == NextDone /\ ~IsZero(ret) /\ steps >= 20 /\ prev.op = "none"

(***************************************************************************)
(* C2: a finished Latest returns the latest whole-second instant at or     *)
(* before its argument that satisfies every field; it returns the zero     *)
(* time only when no instant of the lookback window satisfies the          *)
(* schedule.                                                               *)
(***************************************************************************)
C2_LatestIsLatest ==
  LatestDone =>
    IF IsZero(ret)
    THEN ~SatisfiedIn(s, SchedLoc, LatestHorizonStart(arg, SchedLoc),
                      Add(In(LastSecondUpTo(arg), SchedLoc), 1))
    ELSE /\ Satisfies(s, In(ret, SchedLoc))
         /\ ~Before(arg, ret)
         /\ ret.loc = arg.loc
         /\ ~SatisfiedIn(s, SchedLoc, Add(In(ret, SchedLoc), 1),
                         Add(In(LastSecondUpTo(arg), SchedLoc), 1))

\* a Latest that walked back through wrap-arounds before it found its instant
C2_Witness == LatestDone /\ ~IsZero(ret) /\ steps >= 20 /\ prev.op = "none"

(***************************************************************************)
(* C3: with no end-region request, the Day Matcher accepts a date exactly  *)
(* when day-of-month match AND day-of-week match hold if the flag bit is   *)
(* set on Dom or on Dow, and when day-of-month match OR day-of-week match  *)
(* holds if it is set on neither; for Dom = {15}, Dow = {Monday} that is   *)
(* "the 15th and a Monday" against "the 15th or a Monday"; and every       *)
(* instant Next or Latest returns lies on a date accepted under that rule. *)
(***************************************************************************)
PlainDays(sch) == sch.Dom \subseteq (dom \cup {maxBits}) /\ sch.Dow \subseteq (dow \cup {maxBits})

AndFlag(sch) == maxBits \in sch.Dom \/ maxBits \in sch.Dow

AndOrRule(sch, u) ==
  IF AndFlag(sch)
  THEN Day(u) \in sch.Dom /\ Weekday(u) \in sch.Dow
  ELSE Day(u) \in sch.Dom \/ Weekday(u) \in sch.Dow

C3_AndOrCombination ==
  /\ (pc # "idle" /\ PlainDays(s)) => (dayMatches(s, t) <=> AndOrRule(s, t))
  /\ (pc # "idle" /\ s.Dom \ {maxBits} = {15} /\ s.Dow \ {maxBits} = {1}) =>
       (dayMatches(s, t) <=>
          IF AndFlag(s)
          THEN Day(t) = 15 /\ (LocalDay(t) + 3) % 7 = 0
          ELSE Day(t) = 15 \/ (LocalDay(t) + 3) % 7 = 0)
  /\ (pc = "done" /\ ~IsZero(ret) /\ PlainDays(s)) => AndOrRule(s, In(ret, SchedLoc))

\* under the AND flag, a search that passed 15ths and Mondays and ended on a
\* Monday the 15th
C3_Witness ==
  /\ pc = "done" /\ ~IsZero(ret) /\ AndFlag(s) /\ steps >= 30
  /\ Day(In(ret, SchedLoc)) = 15 /\ Weekday(In(ret, SchedLoc)) = 1

(***************************************************************************)
(* C4: a Dom end-of-month request is honoured: with Dom holding only the   *)
(* request "last day" or "N days before last", Dow empty and no AND flag,  *)
(* the Day Matcher accepts exactly the date L - N of each month, L the     *)
(* month's length; and Next for "last day of February" returns February 28 *)
(* or 29 of a year.                                                        *)
(***************************************************************************)
\* the length of u's month, from the calendar
MonthLength(u) ==
  LocalDay(Date(Year(u), Month(u) + 1, 1, 0, 0, 0, 0, u.loc))
    - LocalDay(Date(Year(u), Month(u), 1, 0, 0, 0, 0, u.loc))

DomRequestOnly(sch) ==
  \E b \in 48 .. 55 : sch.Dom = {b} /\ sch.Dow = {}

C4_EndOfMonthHonoured ==
  /\ (pc # "idle" /\ DomRequestOnly(s)) =>
       \A b \in s.Dom : dayMatches(s, t) <=> (Day(t) = MonthLength(t) - (55 - b))
  /\ (NextDone /\ s.Dom = {domL} /\ s.Dow = {} /\ s.Month = {2}
        /\ Year(arg) \in 2020 .. 2024) =>
       /\ ~IsZero(ret)
       /\ Month(In(ret, SchedLoc)) = 2
       /\ Day(In(ret, SchedLoc)) = MonthLength(In(ret, SchedLoc))

(***************************************************************************)
(* C5: a Dow last-weekday request is honoured: with Dow holding only the   *)
(* request "last occurrence of weekday w", Dom empty and no AND flag, the  *)
(* Day Matcher accepts exactly the last date of each month whose weekday   *)
(* is w.                                                                   *)
(***************************************************************************)
DowRequestOnly(sch) ==
  \E b \in 49 .. 55 : sch.Dow = {b} /\ sch.Dom = {}

C5_LastWeekdayHonoured ==
  (pc # "idle" /\ DowRequestOnly(s)) =>
    \A b \in s.Dow :
      dayMatches(s, t) <=>
        (Weekday(t) = b - 49 /\ Day(t) + 7 > MonthLength(t))

(***************************************************************************)
(* C6: no result of Next other than the zero time lies in a calendar year  *)
(* (of the schedule's Location) after year(t) + 5 or after maxYear, year   *)
(* (t) taken after rounding t up to the next second; and Next returns the  *)
(* zero time when no instant of that window satisfies the schedule.        *)
(***************************************************************************)
C6_NextWithinHorizon ==
  /\ (NextDone /\ ~IsZero(ret)) =>
       /\ Year(In(ret, SchedLoc)) <= Year(In(FirstSecondAfter(arg), SchedLoc)) + 5
       /\ Year(In(ret, SchedLoc)) <= maxYear
  /\ (NextDone /\ ~SatisfiedIn(s, SchedLoc, In(FirstSecondAfter(arg), SchedLoc),
                               NextHorizonEnd(arg, SchedLoc))) =>
       IsZero(ret)

\* the zero time although the schedule names a year past the window
C6_Witness ==
  /\ NextDone /\ IsZero(ret)
  /\ Year(arg) \in minYear .. maxYear
  /\ \E y \in s.Year : y + minYear > Year(In(FirstSecondAfter(arg), SchedLoc)) + 5
  /\ s.Hour # {} /\ s.Minute # {} /\ s.Second # {}

(***************************************************************************)
(* C7: fixed point: when Latest(t) is not the zero time, Next called one   *)
(* second before Latest(t) returns Latest(t).                              *)
(***************************************************************************)
C7_FixedPoint ==
  (NextDone /\ prev.op = "Latest" /\ arg = Add(prev.ret, 0 - 1)) =>
    ret = prev.ret

\* a Latest that had to walk back, followed by the Next that returns to it
C7_Witness ==
  /\ NextDone /\ prev.op = "Latest" /\ ~IsZero(prev.ret)
  /\ Before(prev.ret, prev.arg) /\ ret = prev.ret

(***************************************************************************)
(* C8 (as stated): monotonicity: for t1 <= t2 with Next(t1) and Next(t2)   *)
(* both not the zero time, Next(t1) <= Next(t2).                           *)
(***************************************************************************)
C8_Monotonic ==
  (NextDone /\ prev.op = "Next" /\ ~Before(arg, prev.arg)
     /\ ~IsZero(ret) /\ ~IsZero(prev.ret)) =>
    ~Before(ret, prev.ret)

(***************************************************************************)
(* C8, for two calls that read the calendar in the same Location (the      *)
(* schedule has a Location of its own, or t1 and t2 carry the same         *)
(* Location): for t1 <= t2 with Next(t1) and Next(t2) both not the zero    *)
(* time, Next(t1) <= Next(t2).                                             *)
(***************************************************************************)
SameReading == s.Location # "Local" \/ arg.loc = prev.arg.loc

C8_MonotonicInOneLocation ==
  (NextDone /\ prev.op = "Next" /\ ~Before(arg, prev.arg) /\ SameReading
     /\ ~IsZero(ret) /\ ~IsZero(prev.ret)) =>
    ~Before(ret, prev.ret)

\* two calls on different table instants, read in one Location, with the
\* same, later result
C8_Witness ==
  /\ NextDone /\ prev.op = "Next" /\ Before(prev.arg, arg) /\ arg \in Instants
  /\ SameReading /\ ~IsZero(ret) /\ SameInstant(ret, prev.ret)

(***************************************************************************)
(* C9 (as stated): Next called on the result of Next returns an instant    *)
(* strictly greater than that result.                                      *)
(***************************************************************************)
C9_ChainStrictlyIncreasing ==
  (NextDone /\ prev.op = "Next" /\ arg = prev.ret) => Before(prev.ret, ret)

(***************************************************************************)
(* C9 (amended): Next called on the result of Next returns the zero time   *)
(* or an instant strictly greater than that result, and it returns the     *)
(* zero time when that result is the zero time.                            *)
(***************************************************************************)
C9_ChainIncreasesUntilZero ==
  (NextDone /\ prev.op = "Next" /\ arg = prev.ret) =>
    /\ ~IsZero(ret) => Before(prev.ret, ret)
    /\ IsZero(prev.ret) => IsZero(ret)

\* a chained call that found a later fire time
C9_Witness ==
  /\ NextDone /\ prev.op = "Next" /\ arg = prev.ret
  /\ ~IsZero(ret) /\ Before(prev.ret, ret)

(***************************************************************************)
(* C10 (as stated): every call ends after at most a few thousand           *)
(* field-advance steps.                                                    *)
(***************************************************************************)
FewThousand == 10 * 1000 - 1

C10_StepsWithinFewThousand == steps <= FewThousand

(***************************************************************************)
(* C10 (amended): every call of Next and of Latest returns, whatever the   *)
(* schedule: each step of a running call either moves the candidate        *)
(* strictly forward (Next) or backward (Latest) in time or leaves it in    *)
(* place and moves control strictly down the loops, the candidate never    *)
(* leaves the seven years from the queried year to one past yearLimit, and *)
(* a running call can always take a step; so the bounded window bounds the *)
(* number of steps.                                                        *)
(* The number of field-advance steps is at most a few thousand when Hour,  *)
(* Minute and Second each have a bit set (with one of them empty the       *)
(* search steps through every hour, minute or second of its window).       *)
(***************************************************************************)
Running == pc \notin {"idle", "done"}

\* the position of a label in the code, the label WRAP first
Pos(p) ==
  CASE p = "WRAP"   -> 0
    [] p = "year"   -> 1
    [] p = "month"  -> 2
    [] p = "day"    -> 3
    [] p = "hour"   -> 4
    [] p = "minute" -> 5
    [] p = "second" -> 6
    [] OTHER        -> 7

Advances ==
  \/ op = "Next" /\ Before(t, t')
  \/ op = "Latest" /\ Before(t', t)
  \/ SameInstant(t, t') /\ Pos(pc') > Pos(pc)

InWindow ==
  IF op = "Next"
  THEN Year(t) >= yearLimit - 5 /\ Year(t) <= yearLimit + 1
  ELSE Year(t) >= yearLimit - 1 /\ Year(t) <= yearLimit + 5

\* the guard of one of the loop actions holds (each of them is total: it
\* tests its loop condition and takes either branch)
AtLoop ==
  /\ op \in {"Next", "Latest"}
  /\ pc \in {"WRAP", "year", "month", "day", "hour", "minute", "second"}

C10_EveryCallReturns ==
  /\ [][Running => Advances]_vars
  /\ [](Running => (InWindow /\ AtLoop))
  /\ []((s.Hour # {} /\ s.Minute # {} /\ s.Second # {}) => steps <= FewThousand)

\* a call on a schedule with no Hour bit that returned after more steps
C10_Witness == pc = "done" /\ s.Hour = {} /\ steps > FewThousand

(***************************************************************************)
(* C11: Next returns the zero time or an instant strictly after its        *)
(* argument; it never returns the argument itself, also when the argument  *)
(* is a whole second that satisfies the schedule.                          *)
(***************************************************************************)
C11_NextStrictlyAfter ==
  NextDone => (IsZero(ret) \/ Before(arg, ret))

\* a Next called on a whole second that satisfies the schedule, which
\* returned a later instant
C11_Witness ==
  /\ NextDone /\ arg.ns = 0 /\ Satisfies(s, In(arg, SchedLoc))
  /\ ~IsZero(ret) /\ Before(arg, ret)

(***************************************************************************)
(* C12: Latest returns the zero time or an instant at or before its        *)
(* argument; when the argument is a whole second that satisfies the        *)
(* schedule (its year within minYear..maxYear), Latest returns the         *)
(* argument.                                                               *)
(***************************************************************************)
C12_LatestAtOrBefore ==
  LatestDone =>
    /\ IsZero(ret) \/ ~Before(arg, ret)
    /\ (arg.ns = 0 /\ Satisfies(s, In(arg, SchedLoc))) => ret = arg

\* a first call of Latest on a whole second that satisfies the schedule
C12_Witness ==
  /\ LatestDone /\ prev.op = "none" /\ arg.ns = 0
  /\ Satisfies(s, In(arg, SchedLoc)) /\ ret = arg

(***************************************************************************)
(* C13: for a schedule matching every day at local 00:00:00 in a Location  *)
(* where a spring-forward removes a local midnight, Next called on the day *)
(* before, ahead of the transition, returns the first instant of the       *)
(* transition day (the instant the clock jumps to); and in a chain of Next *)
(* calls each result lies on the calendar day after the previous result,   *)
(* so no day is missed.                                                    *)
(***************************************************************************)
DailyMidnight(sch) ==
  /\ sch.Second = {0} /\ sch.Minute = {0} /\ sch.Hour = {0}
  /\ dom \subseteq sch.Dom /\ months \subseteq sch.Month /\ years \subseteq sch.Year
  /\ ~AndFlag(sch)

C13_NoMissedDay ==
  /\ (NextDone /\ DailyMidnight(s) /\ HasTransition(SchedLoc)
        /\ LocalDay(In(arg, SchedLoc)) = TransitionDate(SchedLoc) - 1) =>
       /\ LocalDay(In(ret, SchedLoc)) = TransitionDate(SchedLoc)
       /\ LocalSod(In(ret, SchedLoc)) = FirstSod(SchedLoc, TransitionDate(SchedLoc))
  /\ (NextDone /\ DailyMidnight(s) /\ prev.op = "Next" /\ arg = prev.ret
        /\ ~IsZero(prev.ret) /\ ~IsZero(ret)) =>
       LocalDay(In(ret, SchedLoc)) = LocalDay(In(prev.ret, SchedLoc)) + 1

(***************************************************************************)
(* C14: when the Year bits of the schedule are all for years before the    *)
(* year of the queried instant (read in the Location the call reads the    *)
(* calendar in), Next returns the zero time, whatever the other fields.    *)
(***************************************************************************)
NoYearFrom(sch, y) == \A b \in sch.Year : b + minYear < y

C14_PastYearsGiveZero ==
  (NextDone /\ NoYearFrom(s, Year(In(arg, SchedLoc)))) => IsZero(ret)

\* the zero time from a schedule that has Year bits, all in the past, and
\* whose other fields accept instants of every year
C14_Witness ==
  /\ NextDone /\ IsZero(ret) /\ s.Year # {}
  /\ NoYearFrom(s, Year(In(arg, SchedLoc)))
  /\ Year(In(arg, SchedLoc)) \in minYear .. maxYear
  /\ PlainDays(s) /\ s.Dom # {} /\ s.Month # {}
  /\ s.Hour # {} /\ s.Minute # {} /\ s.Second # {}

(***************************************************************************)
(* C15: no result of Latest other than the zero time lies in a calendar    *)
(* year before year(t) - 5, before minYear or after maxYear; and Latest    *)
(* returns the zero time when no instant at or before t of that window     *)
(* satisfies the schedule.                                                 *)
(***************************************************************************)
C15_LatestWithinLookback ==
  /\ (LatestDone /\ ~IsZero(ret)) =>
       /\ Year(In(ret, SchedLoc)) >= Year(In(LastSecondUpTo(arg), SchedLoc)) - 5
       /\ Year(In(ret, SchedLoc)) >= minYear
       /\ Year(In(ret, SchedLoc)) <= maxYear
  /\ (LatestDone /\ ~SatisfiedIn(s, SchedLoc, LatestHorizonStart(arg, SchedLoc),
                                 Add(In(LastSecondUpTo(arg), SchedLoc), 1))) =>
       IsZero(ret)

\* the zero time although the schedule names a year before the window
C15_Witness ==
  /\ LatestDone /\ IsZero(ret)
  /\ Year(arg) \in minYear .. maxYear
  /\ \E b \in s.Year : b + minYear < Year(In(LastSecondUpTo(arg), SchedLoc)) - 5
  /\ PlainDays(s) /\ s.Dom # {} /\ s.Month # {}
  /\ s.Hour # {} /\ s.Minute # {} /\ s.Second # {}

(***************************************************************************)
(* C16: no input is fatal: whenever Next or Latest reads the Year bits,    *)
(* the index year - minYear lies in 0 .. maxYear - minYear (never          *)
(* negative), also for instants before minYear or after maxYear; and a     *)
(* running call is always at one of its loops, so it ends by returning.    *)
(***************************************************************************)
C16_YearIndexInRange ==
  /\ ReadsYearBit => YearBitIndex \in 0 .. (maxYear - minYear)
  /\ Running => AtLoop
  /\ (pc = "done" /\ ~IsZero(ret)) =>
       Year(In(ret, SchedLoc)) \in minYear .. maxYear

\* a Next called on an instant before minYear that went through its year
\* tests and returned an instant
C16_Witness == NextDone /\ Year(arg) < minYear /\ ~IsZero(ret)

(***************************************************************************)
(* C18: in Next every advance of a field moves the candidate to the start  *)
(* of the next value of that field, all finer fields at their minimum:     *)
(* January 1st 00:00:00 of the next year, the 1st 00:00:00 of the next     *)
(* month, 00:00:00 of the next day, minute and second 0 of the next hour,  *)
(* second 0 of the next minute, the next second; so a jump back to WRAP    *)
(* finds every field finer than the wrapped one at its minimum, and no     *)
(* candidate is skipped.  "00:00:00" is read as the first instant of the   *)
(* day, which is 01:00:00 on a day whose midnight a clock change removed.  *)
(***************************************************************************)
\* u is the first instant of its day on the wall clock
AtDayStart(u) == LocalSod(u) = FirstSod(u.loc, LocalDay(u)) /\ u.ns = 0

\* the step now taken is an advance (or decrement) of the field of loop p
Advance(o, p) == op = o /\ pc = p /\ steps' = steps + 1

C18_AdvanceResetsFiner ==
  /\ [][Advance("Next", "year") =>
          /\ Year(t') = Year(t) + 1 /\ Month(t') = 1 /\ Day(t') = 1
          /\ AtDayStart(t')]_vars
  /\ [][Advance("Next", "month") =>
          /\ Year(t') * 12 + Month(t') = Year(t) * 12 + Month(t) + 1
          /\ Day(t') = 1 /\ AtDayStart(t')
          /\ pc' = "WRAP" => Month(t') = 1]_vars
  /\ [][Advance("Next", "day") =>
          /\ LocalDay(t') = LocalDay(t) + 1 /\ AtDayStart(t')
          /\ pc' = "WRAP" => Day(t') = 1]_vars
  /\ [][Advance("Next", "hour") =>
          /\ Minute(t') = 0 /\ Second(t') = 0 /\ t'.ns = 0
          /\ Before(t, t') /\ ~Before(Add(t, 3600), t')
          /\ pc' = "WRAP" => AtDayStart(t')]_vars
  /\ [][Advance("Next", "minute") =>
          /\ Second(t') = 0 /\ t'.ns = 0
          /\ Before(t, t') /\ ~Before(Add(t, 60), t')
          /\ pc' = "WRAP" => Minute(t') = 0]_vars
  /\ [][Advance("Next", "second") =>
          /\ t' = Add(t, 1) /\ t'.ns = 0
          /\ pc' = "WRAP" => Second(t') = 0]_vars

(***************************************************************************)
(* C19: in Latest every decrement of a field moves the candidate to the    *)
(* last second of the preceding value of that field (the second before the *)
(* start of the current year, month, day, hour, minute or second), so all  *)
(* finer fields are at their maximum; and control jumps back to WRAP       *)
(* exactly on the decrement taken while the field was at its minimum (day  *)
(* 1, hour 0, minute 0, second 0; for the month, on leaving January).      *)
(***************************************************************************)
C19_DecrementToLastSecond ==
  /\ [][Advance("Latest", "year") =>
          /\ Year(t') = Year(t) - 1 /\ Month(t') = 12 /\ Day(t') = 31
          /\ Hour(t') = 23 /\ Minute(t') = 59 /\ Second(t') = 59
          /\ pc' # "WRAP"]_vars
  /\ [][Advance("Latest", "month") =>
          /\ Year(t') * 12 + Month(t') = Year(t) * 12 + Month(t) - 1
          /\ Day(Add(t', 1)) = 1 /\ Month(Add(t', 1)) = Month(t)
          /\ Hour(t') = 23 /\ Minute(t') = 59 /\ Second(t') = 59
          /\ pc' = "WRAP" <=> Month(t) = 1]_vars
  /\ [][Advance("Latest", "day") =>
          /\ LocalDay(t') = LocalDay(t) - 1
          /\ Hour(t') = 23 /\ Minute(t') = 59 /\ Second(t') = 59
          /\ pc' = "WRAP" <=> Day(t) = 1]_vars
  /\ [][Advance("Latest", "hour") =>
          /\ Minute(t') = 59 /\ Second(t') = 59
          /\ Before(t', t) /\ ~Before(t', Add(t, 0 - 3600))
          /\ Hour(Add(t', 1)) = Hour(t)
          /\ pc' = "WRAP" <=> Hour(t) = 0]_vars
  /\ [][Advance("Latest", "minute") =>
          /\ Second(t') = 59
          /\ Before(t', t) /\ ~Before(t', Add(t, 0 - 60))
          /\ Minute(Add(t', 1)) = Minute(t)
          /\ pc' = "WRAP" <=> Minute(t) = 0]_vars
  /\ [][Advance("Latest", "second") =>
          /\ t' = Add(t, 0 - 1)
          /\ pc' = "WRAP" <=> Second(t) = 0]_vars

(***************************************************************************)
(* C20: converse round trip: when Next(t) is not the zero time, Latest     *)
(* called on Next(t) returns Next(t).                                      *)
(***************************************************************************)
C20_LatestOfNext ==
  (LatestDone /\ prev.op = "Next" /\ arg = prev.ret) => ret = prev.ret

(***************************************************************************)
(* Two goroutines calling Next and Latest on one schedule.  Every variable *)
(* the searches assign (lines 109-125 and 242-255: origLocation, loc, t,   *)
(* added, yearLimit) is a local of the call, and the schedule is reached   *)
(* through the shared pointer s.  One goroutine takes steps at a time; the *)
(* locals of the one that waits are kept in other.  Each goroutine makes   *)
(* one call.                                                               *)
(***************************************************************************)
ConcSchedules == {ScheduleAt(2), ScheduleAt(3), ScheduleAt(11)}

ConcInstants == {InstantAt(1), InstantAt(2), InstantAt(3)}

ConcInit == Init /\ s \in ConcSchedules

\* the locals and the position of the goroutine taking steps
Locals ==
  [op |-> op, arg |-> arg, t |-> t, added |-> added, yearLimit |-> yearLimit,
   origLocation |-> origLocation, loc |-> loc, pc |-> pc, ret |-> ret, steps |-> steps]

ConcNextCall ==
  /\ pc = "idle"
  /\ \E tin \in ConcInstants : NextEnter(tin)
  /\ UNCHANGED <<s, prev, other>>

ConcLatestCall ==
  /\ pc = "idle"
  /\ \E tin \in ConcInstants : LatestEnter(tin)
  /\ UNCHANGED <<s, prev, other>>

\* a switch that leaves the flag added where it is, as one flag kept for
\* every call on the schedule
SwitchSharingAdded ==
  /\ other' = Locals
  /\ op' = other.op
  /\ arg' = other.arg
  /\ t' = other.t
  /\ added' = added
  /\ yearLimit' = other.yearLimit
  /\ origLocation' = other.origLocation
  /\ loc' = other.loc
  /\ pc' = other.pc
  /\ ret' = other.ret
  /\ steps' = other.steps
  /\ UNCHANGED <<s, prev>>

\* the scheduler stops the goroutine taking steps, between any two of its
\* steps, and resumes the other one: each finds its own locals again, and
\* both hold the same s
Switch ==
  /\ other' = Locals
  /\ op' = other.op
  /\ arg' = other.arg
  /\ t' = other.t
  /\ added' = other.added
  /\ yearLimit' = other.yearLimit
  /\ origLocation' = other.origLocation
  /\ loc' = other.loc
  /\ pc' = other.pc
  /\ ret' = other.ret
  /\ steps' = other.steps
  /\ UNCHANGED <<s, prev>>

ConcNext ==
  \/ ConcNextCall
  \/ NextWRAP
  \/ NextYear
  \/ NextMonth
  \/ NextDay
  \/ NextHour
  \/ NextMinute
  \/ NextSecond
  \/ ConcLatestCall
  \/ LatestWRAP
  \/ LatestYear
  \/ LatestMonth
  \/ LatestDay
  \/ LatestHour
  \/ LatestMinute
  \/ LatestSecond
  \/ Switch

ConcSpec == ConcInit /\ [][ConcNext]_vars

(***************************************************************************)
(* C17: with two goroutines calling Next and Latest on one schedule, no    *)
(* step of either call changes the schedule (its seven bit sets and its    *)
(* Location), and under every interleaving of their steps each finished    *)
(* call returns the result it returns when it runs alone: the one instant  *)
(* (or the zero time) that the schedule and the argument determine, which  *)
(* the interleavings without a switch inside a call return.                *)
(***************************************************************************)
C17_ConcurrentCallsAsAlone ==
  /\ [][s' = s]_vars
  /\ [](C1_NextIsEarliest /\ C2_LatestIsLatest)

\* a Next that has returned an instant while a Latest on the same schedule
\* is in the middle of its loops
C17_Witness ==
  /\ NextDone /\ ~IsZero(ret) /\ steps >= 3
  /\ other.op = "Latest" /\ other.pc \notin {"idle", "done"} /\ other.steps >= 3

====
